---- MODULE Spec2Model ----
(***************************************************************************)
(* MultipartReader: a streaming multipart/form-data encoder.               *)
(*                                                                         *)
(* The repository holds four revisions of the same small type.  The model  *)
(* carries all four; the variable rev, fixed by Init, says which one runs: *)
(*   "A"  src/unnamed/part_000      lines   1-177                          *)
(*   "B"  src/unnamed/part_000      lines 179-315                          *)
(*   "C"  src/multipartreader.go    lines   1-142                          *)
(*   "D"  src/multipartreader.go    lines 144-244                          *)
(*                                                                         *)
(* Modelled are the operations of the assembler's contract: New,           *)
(* SetBoundary, AddReader, AddFormReader, WriteFields / AddFields,         *)
(* WriteFile / AddFile, SetupRequest / SetupHTTPRequest, Read and Count.   *)
(* AddFormReader of revision C (multipartreader.go 65-75) adds to a length *)
(* that revision C does not declare, so it does not build and has no       *)
(* behaviour to model.  AddValuesReader and Close of revision A are not    *)
(* part of the contract and are left out.                                  *)
(*                                                                         *)
(* A byte is a one-character string; a Go string or []byte is a sequence   *)
(* of bytes.  Readers are heap objects (Go pointers): mr.readers and the   *)
(* slice io.MultiReader copies both hold references to the same objects.   *)
(*                                                                         *)
(* Spec runs the calls of one goroutine, each call one step.  SpecObserved *)
(* adds goroutines that call Count while the first one is inside Read:     *)
(* there Read is two steps, the read of the MultiReader and the atomic     *)
(* add to count, and Count may run between them.                           *)
(***************************************************************************)
EXTENDS Integers, Sequences, FiniteSets, TLC

VARIABLES
    rev,          \* which revision of the type is running
    boundary,     \* mr.boundary / mr.Boundary
    contentType,  \* mr.contentType
    writer,       \* mr.writer: the multipart.Writer's boundary, lastpart, closed
    heap,         \* the reader objects, addressed by index
    readers,      \* mr.readers: sequence of heap indices
    length,       \* mr.length
    multiReader,  \* mr.multiReader: nil, or the io.MultiReader's remaining readers
    count,        \* mr.count
    ret,          \* the last call, what it returned and the request it filled
    out,          \* history: the bytes Read has delivered so far
    appended,     \* history: the content of every source appended, in call order
    hist          \* history: flags about the calls made so far; the Read that
                  \* is between its two steps (pend); the last value an
                  \* observer got from Count (seen)

vars == <<rev, boundary, contentType, writer, heap, readers, length,
          multiReader, count, ret, out, appended, hist>>

(***************************************************************************)
(* Bounds of the model.                                                    *)
(***************************************************************************)
MaxAppends == 2     \* append-type calls per run
SmallBuf == 40      \* a read buffer shorter than a part header
BigBuf == 512       \* a read buffer longer than any source of the model

(***************************************************************************)
(* Byte strings.                                                           *)
(***************************************************************************)
CRLF == <<"\r", "\n">>
Dashes == <<"-", "-">>
Quote == <<"\"">>

\* "Content-Disposition: form-data; name=\""
DispositionName ==
    <<"C","o","n","t","e","n","t","-","D","i","s","p","o","s","i","t","i","o","n",":"," ",
      "f","o","r","m","-","d","a","t","a",";"," ","n","a","m","e","=","\"">>

\* "\"; filename=\""
DispositionFilename ==
    <<"\"",";"," ","f","i","l","e","n","a","m","e","=","\"">>

\* "multipart/form-data; boundary="
FormDataPrefix ==
    <<"m","u","l","t","i","p","a","r","t","/","f","o","r","m","-","d","a","t","a",";"," ",
      "b","o","u","n","d","a","r","y","=">>

RECURSIVE Flatten(_)
Flatten(ss) == IF ss = <<>> THEN <<>> ELSE Head(ss) \o Flatten(Tail(ss))

Range(s) == {s[i] : i \in 1..Len(s)}

Min(a, b) == IF a < b THEN a ELSE b

(***************************************************************************)
(* Inputs the callers of the model pass in.                                *)
(***************************************************************************)
\* multipart.NewWriter draws a random boundary of hex digits (shortened here).
RandomBoundaries == {<<"0", "f">>}

LongToken == [i \in 1..71 |-> "x"]

\* Tokens handed to SetBoundary: one valid, one with an embedded CRLF, the
\* empty one, one longer than the limit.
BoundaryTokens == {<<"z", "9">>, <<"a", "\r", "\n", "b">>, <<>>, LongToken}

\* Caller-supplied io.Readers: their content, and whether the reader fails
\* once its content is delivered instead of reporting io.EOF.
Sources == {[data |-> <<"h", "i">>, bad |-> FALSE],
            [data |-> <<"o", "k">>, bad |-> TRUE]}

\* The length argument a caller passes for a source: its real length, or 0
\* when the caller does not know it (the failing source always comes with
\* its real length).
DeclaredLengths(src) == IF src.bad THEN {Len(src.data)} ELSE {Len(src.data), 0}

\* The readers handed to AddFormReader of revisions A, B and D, each with
\* its real length.
FormSources == {src \in Sources : ~src.bad}

FieldNames == {<<"k">>}
FileNames == {<<"n">>}

\* map[string]string arguments, each in the orders range may visit it.
FieldMaps ==
    {<< <<(<<"a">>), (<<"1">>)>>, <<(<<"b">>), (<<"2">>)>> >>,
     << <<(<<"b">>), (<<"2">>)>>, <<(<<"a">>), (<<"1">>)>> >>}

\* Files on disk: a path that exists with its content, and one that does not.
FilePath == <<"d", "/", "r">>
MissingPath == <<"d", "/", "m">>
FileContent == <<"h", "e", "y">>

\* len(p) of the buffers handed to Read.
BufSizes == {SmallBuf, BigBuf}

(***************************************************************************)
(* mime/multipart.Writer, as the repository calls it.                      *)
(***************************************************************************)
AlphaNum ==
    {"a","b","c","d","e","f","g","h","i","j","k","l","m","n","o","p","q","r","s","t",
     "u","v","w","x","y","z","A","B","C","D","E","F","G","H","I","J","K","L","M","N",
     "O","P","Q","R","S","T","U","V","W","X","Y","Z","0","1","2","3","4","5","6","7",
     "8","9"}

BoundaryPunct == {"'", "(", ")", "+", "_", ",", "-", ".", "/", ":", "=", "?"}

TSpecials == {"(", ")", "<", ">", "@", ",", ";", ":", "\\", "\"", "/", "[", "]", "?", "=", " "}

\* The syntax check of Writer.SetBoundary: 1..70 bytes of the RFC 2046
\* boundary alphabet, a space allowed anywhere but at the end.
ValidBoundary(b) ==
    /\ Len(b) >= 1
    /\ Len(b) <= 70
    /\ \A i \in 1..Len(b) :
          \/ b[i] \in AlphaNum
          \/ b[i] \in BoundaryPunct
          \/ (b[i] = " " /\ i # Len(b))

\* Writer.SetBoundary: the error it returns, "nil" on success.
WriterSetBoundaryErr(w, b) ==
    IF w.lastpart THEN "mime: SetBoundary called after write"
    ELSE IF Len(b) < 1 \/ Len(b) > 70 THEN "mime: invalid boundary length"
    ELSE IF ~ValidBoundary(b) THEN "mime: invalid boundary character"
    ELSE "nil"

\* Writer.FormDataContentType: the boundary is quoted if it has a tspecial.
FormDataContentType(b) ==
    IF Range(b) \cap TSpecials # {}
    THEN FormDataPrefix \o Quote \o b \o Quote
    ELSE FormDataPrefix \o b

\* escapeQuotes: backslash and double quote get a backslash in front.
RECURSIVE escapeQuotes(_)
escapeQuotes(s) ==
    IF s = <<>> THEN <<>>
    ELSE (IF Head(s) \in {"\\", "\""} THEN <<"\\", Head(s)>> ELSE <<Head(s)>>)
         \o escapeQuotes(Tail(s))

\* Writer.CreatePart: the bytes written for a part with the given header lines.
CreatePart(w, headerLines) ==
    (IF w.lastpart THEN CRLF ELSE <<>>) \o Dashes \o w.boundary \o CRLF
    \o headerLines \o CRLF

CreateFormField(w, fieldname) ==
    CreatePart(w, DispositionName \o escapeQuotes(fieldname) \o Quote \o CRLF)

(***************************************************************************)
(* The byte strings the repository formats itself.                         *)
(***************************************************************************)
\* "\r\n--" + boundary + "--\r\n"
FormClose(b) == CRLF \o Dashes \o b \o Dashes \o CRLF

\* Sprintf("--%s\r\nContent-Disposition: form-data; name=\"%s\"; filename=\"%s\"\r\n\r\n")
FormHeader(b, name, filename) ==
    Dashes \o b \o CRLF \o DispositionName \o name \o DispositionFilename
    \o filename \o Quote \o CRLF \o CRLF

\* Sprintf("--%s\r\nContent-Disposition: form-data; name=\"%s\"\r\n\r\n")
FieldHeader(b, key) ==
    Dashes \o b \o CRLF \o DispositionName \o key \o Quote \o CRLF \o CRLF

\* os.FileInfo.Name(): the last element of the path.
RECURSIVE BaseName(_)
BaseName(path) ==
    IF \E i \in 1..Len(path) : path[i] = "/"
    THEN BaseName(Tail(path))
    ELSE path

(***************************************************************************)
(* Reader objects.  kind is "buffer" (bytes.Buffer), "string"              *)
(* (strings.Reader, bytes.Reader), "ext" (a caller's io.Reader) or "file"  *)
(* (os.File).  closer says who closed a file: "none", "assembler",         *)
(* "caller".                                                               *)
(***************************************************************************)
NewReader(kind, data, bad, open, closer) ==
    [kind |-> kind, data |-> data, pos |-> 0, bad |-> bad, open |-> open,
     closer |-> closer]

Buffer(data) == NewReader("buffer", data, FALSE, TRUE, "none")
StringReader(data) == NewReader("string", data, FALSE, TRUE, "none")
ExtReader(src) == NewReader("ext", src.data, src.bad, TRUE, "none")
FileReader(data, open, closer) == NewReader("file", data, FALSE, open, closer)

Remaining(r) == IF r.pos >= Len(r.data) THEN 0 ELSE Len(r.data) - r.pos

\* The bytes a reader still holds.
Unread(r) == SubSeq(r.data, r.pos + 1, Len(r.data))

\* copy(p, data[pos:]) with len(p) = k: n bytes delivered, the reader advanced.
CopyOut(r, k) ==
    LET n == Min(k, Remaining(r))
    IN  [n |-> n, err |-> "nil", r |-> [r EXCEPT !.pos = @ + n],
         bytes |-> SubSeq(r.data, r.pos + 1, r.pos + n)]

\* One Read(p) on a reader, len(p) = k.
ReaderRead(r, k) ==
    CASE r.kind = "string" ->
           IF Remaining(r) = 0
           THEN [n |-> 0, err |-> "EOF", r |-> r, bytes |-> <<>>]
           ELSE CopyOut(r, k)
      [] r.kind = "buffer" ->
           IF Remaining(r) = 0
           THEN [n |-> 0, err |-> IF k = 0 THEN "nil" ELSE "EOF",
                 r |-> [r EXCEPT !.data = <<>>, !.pos = 0], bytes |-> <<>>]
           ELSE CopyOut(r, k)
      [] r.kind = "ext" ->
           IF Remaining(r) = 0
           THEN [n |-> 0, err |-> IF r.bad THEN "ErrSource" ELSE "EOF",
                 r |-> r, bytes |-> <<>>]
           ELSE CopyOut(r, k)
      [] r.kind = "file" ->
           IF ~r.open
           THEN [n |-> 0, err |-> "ErrClosed", r |-> r, bytes |-> <<>>]
           ELSE IF k = 0
           THEN [n |-> 0, err |-> "nil", r |-> r, bytes |-> <<>>]
           ELSE IF Remaining(r) = 0
           THEN [n |-> 0, err |-> "EOF", r |-> r, bytes |-> <<>>]
           ELSE CopyOut(r, k)

\* bytes.Buffer.Write / io.Copy into the buffer: the bytes go to its end.
BufferWrite(r, bytes) == [r EXCEPT !.data = @ \o bytes]

\* A MultiReader that treats a failed read of a source as its end and
\* moves on to the next source.
RECURSIVE MultiReadSkips(_, _, _)
MultiReadSkips(rs, h, k) ==
    IF rs = <<>>
    THEN [n |-> 0, err |-> "EOF", rs |-> rs, heap |-> h, bytes |-> <<>>]
    ELSE LET res == ReaderRead(h[Head(rs)], k)
             h1  == [h EXCEPT ![Head(rs)] = res.r]
             rs1 == IF res.err # "nil" THEN Tail(rs) ELSE rs
         IN  IF res.n > 0 \/ res.err = "nil"
             THEN [n |-> res.n,
                   err |-> IF res.err # "nil" /\ rs1 = <<>> THEN "EOF" ELSE "nil",
                   rs |-> rs1, heap |-> h1, bytes |-> res.bytes]
             ELSE MultiReadSkips(rs1, h1, k)

\* io.MultiReader(...).Read(p), len(p) = k, over the remaining readers rs:
\* it reads the first reader, drops it on io.EOF and moves on only when
\* that reader delivered nothing and reported io.EOF.
RECURSIVE MultiRead(_, _, _)
MultiRead(rs, h, k) ==
    IF rs = <<>>
    THEN [n |-> 0, err |-> "EOF", rs |-> rs, heap |-> h, bytes |-> <<>>]
    ELSE LET res == ReaderRead(h[Head(rs)], k)
             h1  == [h EXCEPT ![Head(rs)] = res.r]
             rs1 == IF res.err = "EOF" THEN Tail(rs) ELSE rs
         IN  IF res.n > 0 \/ res.err # "EOF"
             THEN [n |-> res.n,
                   err |-> IF res.err = "EOF" /\ rs1 # <<>> THEN "nil" ELSE res.err,
                   rs |-> rs1, heap |-> h1, bytes |-> res.bytes]
             ELSE MultiRead(rs1, h1, k)

(***************************************************************************)
(* The MultipartReader.                                                    *)
(***************************************************************************)
Revisions == {"A", "B", "C", "D"}

\* Does the revision's struct have the length field?
HasLength(v) == v # "C"

\* A request as the caller hands it to SetupRequest.
FreshRequest ==
    [body |-> FALSE, contentType |-> <<>>, lengthSet |-> FALSE, contentLength |-> 0]

\* The record of a call: its name, the error and the number it returned, its
\* boundary or fields argument, and its *http.Request argument as the call
\* left it.
Called(op, err, n, arg, req) ==
    [op |-> op, err |-> err, n |-> n, arg |-> arg, req |-> req]

Returned(op, err, n, arg) == Called(op, err, n, arg, FreshRequest)

\* No Read is between its two steps.
NoRead == [active |-> FALSE, n |-> 0, err |-> "nil"]

\* New / NewMultipartReader.  Revisions A and C put the bytes.Buffer the
\* multipart.Writer writes to in front of the close reader; revisions B and
\* D put a strings.Reader over a copy of the buffer's (empty) content there,
\* and D drops the writer.
Init ==
    /\ rev \in Revisions
    /\ boundary \in RandomBoundaries
    /\ contentType = FormDataContentType(boundary)
    /\ writer = [boundary |-> boundary, lastpart |-> FALSE, w |-> 1]
    /\ heap = IF rev \in {"A", "C"}
              THEN <<Buffer(<<>>), StringReader(FormClose(boundary))>>
              ELSE <<Buffer(<<>>), StringReader(FormClose(boundary)), StringReader(<<>>)>>
    /\ readers = IF rev \in {"A", "C"} THEN <<1, 2>> ELSE <<3, 2>>
    /\ length = IF HasLength(rev) THEN 0 + Len(FormClose(boundary)) ELSE 0
    /\ multiReader = [built |-> FALSE, rs |-> <<>>]
    /\ count = 0
    /\ ret = Returned("New", "nil", 0, <<>>)
    /\ out = <<>>
    /\ appended = <<>>
    /\ hist = [appends |-> 0, reads |-> FALSE, late |-> FALSE, declared |-> TRUE,
               raw |-> FALSE, failed |-> FALSE, done |-> FALSE,
               pend |-> NoRead, seen |-> 0]

\* A nil-pointer panic ends the program.
NotPanicked == ret.err # "panic"

\* The goroutine that assembles and reads can make its next call: the
\* program runs and its last call has returned.
Alive == NotPanicked /\ ~hist.pend.active

\* append(mr.readers[:i-1], r, mr.readers[i-1]) with i = len(mr.readers).
InsertBeforeLast(rs, r) ==
    LET i == Len(rs) IN SubSeq(rs, 1, i - 1) \o <<r, rs[i]>>

\* GetMultiReader: build io.MultiReader(mr.readers...) if there is none yet.
GetMultiReader == IF multiReader.built THEN multiReader
                  ELSE [built |-> TRUE, rs |-> readers]

\* History kept by every append-type call: one more call, late if the
\* MultiReader was already built, and whether the length passed was right
\* (raw is set by AddReader itself: a source appended without a part header).
Appended(h, rightLength) ==
    [h EXCEPT !.appends = @ + 1,
              !.late = @ \/ multiReader.built,
              !.declared = @ /\ rightLength]

\* AddReader(r, length), revisions A, B and D.
AddReader ==
    /\ Alive /\ rev \in {"A", "B", "D"} /\ hist.appends < MaxAppends
    /\ \E src \in Sources : \E len \in DeclaredLengths(src) :
          /\ heap' = Append(heap, ExtReader(src))
          /\ readers' = InsertBeforeLast(readers, Len(heap) + 1)
          /\ length' = length + len
          /\ appended' = Append(appended, src.data)
          /\ hist' = [Appended(hist, len = Len(src.data)) EXCEPT !.raw = TRUE]
    /\ ret' = Returned("AddReader", "nil", 0, <<>>)
    /\ UNCHANGED <<rev, boundary, contentType, writer, multiReader, count, out>>

\* AddReader(r), revision C: no length.
AddReaderC ==
    /\ Alive /\ rev = "C" /\ hist.appends < MaxAppends
    /\ \E src \in Sources :
          /\ heap' = Append(heap, ExtReader(src))
          /\ readers' = InsertBeforeLast(readers, Len(heap) + 1)
          /\ appended' = Append(appended, src.data)
          /\ hist' = [Appended(hist, FALSE) EXCEPT !.raw = TRUE]
    /\ ret' = Returned("AddReader", "nil", 0, <<>>)
    /\ UNCHANGED <<rev, boundary, contentType, writer, length, multiReader, count, out>>

\* SetBoundary with the Writer's syntax check left out: only a part already
\* written makes it fail.
SetBoundaryUnchecked ==
    /\ Alive /\ rev \in {"A", "B", "C"}
    /\ \E token \in BoundaryTokens :
          LET err == IF writer.lastpart THEN "mime: SetBoundary called after write"
                     ELSE "nil"
          IN  /\ writer' = IF err = "nil" THEN [writer EXCEPT !.boundary = token]
                           ELSE writer
              /\ ret' = Returned("SetBoundary", err, 0, token)
    /\ UNCHANGED <<rev, boundary, contentType, heap, readers, length, multiReader,
                   count, out, appended, hist>>

\* SetBoundary(boundary), revisions A, B and C: Writer.SetBoundary and
\* nothing else.
SetBoundary ==
    /\ Alive /\ rev \in {"A", "B", "C"}
    /\ \E token \in BoundaryTokens :
          LET err == WriterSetBoundaryErr(writer, token)
          IN  /\ writer' = IF err = "nil" THEN [writer EXCEPT !.boundary = token]
                           ELSE writer
              /\ ret' = Returned("SetBoundary", err, 0, token)
    /\ UNCHANGED <<rev, boundary, contentType, heap, readers, length, multiReader,
                   count, out, appended, hist>>

\* AddFormReader, revisions A, B and D: the form header as a literal reader,
\* then the caller's reader, both through AddReader.
AddFormReader ==
    /\ Alive /\ rev \in {"A", "B", "D"} /\ hist.appends < MaxAppends
    /\ \E name \in FieldNames, filename \in FileNames, src \in FormSources :
          LET form == FormHeader(boundary, name, filename)
              len  == Len(src.data)
              h1   == Append(heap, StringReader(form))
              rs1  == InsertBeforeLast(readers, Len(h1))
          IN  /\ heap' = Append(h1, ExtReader(src))
              /\ readers' = InsertBeforeLast(rs1, Len(h1) + 1)
              /\ length' = (length + Len(form)) + len
              /\ appended' = appended \o <<form, src.data>>
              /\ hist' = Appended(hist, TRUE)
    /\ ret' = Returned("AddFormReader", "nil", 0, <<>>)
    /\ UNCHANGED <<rev, boundary, contentType, writer, multiReader, count, out>>

\* The bytes the Writer emits for the fields of a map visited in the order
\* fields: CreateFormField, then the value, for each.
RECURSIVE FieldParts(_, _)
FieldParts(w, fields) ==
    IF fields = <<>> THEN <<>>
    ELSE <<CreateFormField(w, Head(fields)[1]), Head(fields)[2]>>
         \o FieldParts([w EXCEPT !.lastpart = TRUE], Tail(fields))

\* What WriteFields of revision A and AddFields of revision B do: every
\* field goes through the multipart.Writer, into the buffer it writes to.
ThroughWriter(op) ==
    /\ hist.appends < MaxAppends
    /\ \E fields \in FieldMaps :
          LET parts == FieldParts(writer, fields)
          IN  /\ heap' = [heap EXCEPT ![writer.w] = BufferWrite(@, Flatten(parts))]
              /\ appended' = appended \o parts
              /\ ret' = Returned(op, "nil", 0, fields)
    /\ writer' = [writer EXCEPT !.lastpart = TRUE]
    /\ hist' = Appended(hist, TRUE)
    /\ UNCHANGED <<rev, boundary, contentType, readers, length, multiReader, count, out>>

\* WriteFields(fields), revision A.
WriteFields == Alive /\ rev = "A" /\ ThroughWriter("WriteFields")

\* AddFields(fields), revision B.
AddFields == Alive /\ rev = "B" /\ ThroughWriter("AddFields")

\* AddReader(strings.NewReader(s)) for each s of lits, in order.
RECURSIVE AddLiterals(_, _, _)
AddLiterals(h, rs, lits) ==
    IF lits = <<>> THEN [heap |-> h, readers |-> rs]
    ELSE AddLiterals(Append(h, StringReader(Head(lits))),
                     InsertBeforeLast(rs, Len(h) + 1), Tail(lits))

\* The literals WriteFields of revision C adds for the fields, in order.
RECURSIVE FieldLiterals(_, _)
FieldLiterals(b, fields) ==
    IF fields = <<>> THEN <<>>
    ELSE <<FieldHeader(b, Head(fields)[1]), Head(fields)[2] \o CRLF>>
         \o FieldLiterals(b, Tail(fields))

\* WriteFields(fields), revision C.
WriteFieldsC ==
    /\ Alive /\ rev = "C" /\ hist.appends < MaxAppends
    /\ \E fields \in FieldMaps :
          LET lits == FieldLiterals(boundary, fields)
              res  == AddLiterals(heap, readers, lits)
          IN  /\ heap' = res.heap
              /\ readers' = res.readers
              /\ appended' = appended \o lits
              /\ ret' = Returned("WriteFields", "nil", 0, fields)
    /\ hist' = Appended(hist, TRUE)
    /\ UNCHANGED <<rev, boundary, contentType, writer, length, multiReader, count, out>>

\* The form header and then the file f, both through AddReader.
AddFileReaders(filename, f) ==
    LET form == FormHeader(boundary, <<"f", "i", "l", "e">>, filename)
        h1   == Append(heap, StringReader(form))
        rs1  == InsertBeforeLast(readers, Len(h1))
    IN  /\ heap' = Append(h1, f)
        /\ readers' = InsertBeforeLast(rs1, Len(h1) + 1)
        /\ length' = IF HasLength(rev) THEN (length + Len(form)) + Len(f.data)
                     ELSE length
        /\ appended' = appended \o <<form, f.data>>
        /\ hist' = Appended(hist, HasLength(rev))

\* WriteFile(key, filename), revisions A and C: os.Open, defer fs.Close(),
\* (in A) fs.Stat(), the header with fs.Name() (the path as opened), the two
\* AddReader calls; the deferred Close runs as the call returns.
WriteFile ==
    /\ Alive /\ rev \in {"A", "C"} /\ hist.appends < MaxAppends
    /\ \E path \in {FilePath, MissingPath} :
          IF path = MissingPath
          THEN /\ ret' = Returned("WriteFile", "ErrNotExist", 0, <<>>)
               /\ UNCHANGED <<heap, readers, length, appended, hist>>
          ELSE /\ AddFileReaders(path, FileReader(FileContent, FALSE, "assembler"))
               /\ ret' = Returned("WriteFile", "nil", 0, <<>>)
    /\ UNCHANGED <<rev, boundary, contentType, writer, multiReader, count, out>>

\* AddFile(file), revisions B and D: the caller's *os.File; file.Stat()
\* fails on a file the caller has closed; the header names the base name.
AddFile ==
    /\ Alive /\ rev \in {"B", "D"} /\ hist.appends < MaxAppends
    /\ \E open \in BOOLEAN :
          IF ~open
          THEN /\ ret' = Returned("AddFile", "ErrClosed", 0, <<>>)
               /\ UNCHANGED <<heap, readers, length, appended, hist>>
          ELSE /\ AddFileReaders(BaseName(FilePath), FileReader(FileContent, TRUE, "none"))
               /\ ret' = Returned("AddFile", "nil", 0, <<>>)
    /\ UNCHANGED <<rev, boundary, contentType, writer, multiReader, count, out>>

\* The caller closes a file it handed to AddFile.
CallerClose ==
    /\ Alive
    /\ \E i \in 1..Len(heap) :
          /\ heap[i].kind = "file" /\ heap[i].open
          /\ heap' = [heap EXCEPT ![i].open = FALSE, ![i].closer = "caller"]
    /\ ret' = Returned("CallerClose", "nil", 0, <<>>)
    /\ UNCHANGED <<rev, boundary, contentType, writer, readers, length, multiReader,
                   count, out, appended, hist>>

\* SetupRequest(req), revisions A and B.
SetupRequest ==
    /\ Alive /\ rev \in {"A", "B"}
    /\ multiReader' = GetMultiReader
    /\ ret' = Called("SetupRequest", "nil", 0, <<>>,
                     [body |-> TRUE, contentType |-> <<contentType>>,
                      lengthSet |-> TRUE, contentLength |-> length])
    /\ UNCHANGED <<rev, boundary, contentType, writer, heap, readers, length, count,
                   out, appended, hist>>

\* SetupRequest(req), revision C: body and content type only.
SetupRequestC ==
    /\ Alive /\ rev = "C"
    /\ multiReader' = GetMultiReader
    /\ ret' = Called("SetupRequest", "nil", 0, <<>>,
                     [FreshRequest EXCEPT !.body = TRUE,
                                          !.contentType = <<contentType>>])
    /\ UNCHANGED <<rev, boundary, contentType, writer, heap, readers, length, count,
                   out, appended, hist>>

\* SetupHTTPRequest(req), revision D: a new MultiReader over mr.readers on
\* every call; content type and content length, no body.
SetupHTTPRequest ==
    /\ Alive /\ rev = "D"
    /\ multiReader' = [built |-> TRUE, rs |-> readers]
    /\ ret' = Called("SetupHTTPRequest", "nil", 0, <<>>,
                     [FreshRequest EXCEPT !.contentType = <<contentType>>,
                                          !.lengthSet = TRUE,
                                          !.contentLength = length])
    /\ UNCHANGED <<rev, boundary, contentType, writer, heap, readers, length, count,
                   out, appended, hist>>

\* History kept by Read: a read was made, and whether any read so far
\* returned io.EOF (done) or another error (failed).
AfterRead(h, err) ==
    [h EXCEPT !.reads = TRUE,
              !.done = @ \/ err = "EOF",
              !.failed = @ \/ err \notin {"nil", "EOF"}]

\* ReadFrom with len(p) added to count in place of n.
ReadFromAddsLen(m, k) ==
    LET res == MultiRead(m.rs, heap, k)
    IN  /\ multiReader' = [built |-> TRUE, rs |-> res.rs]
        /\ heap' = res.heap
        /\ count' = count + k
        /\ out' = out \o res.bytes
        /\ ret' = Returned("Read", res.err, res.n, <<>>)
        /\ hist' = AfterRead(hist, res.err)

\* What Read does once it has a MultiReader m: read, then add n to count.
ReadFrom(m, k) ==
    LET res == MultiRead(m.rs, heap, k)
    IN  /\ multiReader' = [built |-> TRUE, rs |-> res.rs]
        /\ heap' = res.heap
        /\ count' = count + res.n
        /\ out' = out \o res.bytes
        /\ ret' = Returned("Read", res.err, res.n, <<>>)
        /\ hist' = AfterRead(hist, res.err)

\* Read(p), revisions A, B and C.
Read ==
    /\ Alive /\ rev \in {"A", "B", "C"}
    /\ \E k \in BufSizes : ReadFrom(GetMultiReader, k)
    /\ UNCHANGED <<rev, boundary, contentType, writer, readers, length, appended>>

\* Read(p), revision D: mr.multiReader is used as it is, nil before
\* SetupHTTPRequest.
ReadD ==
    /\ Alive /\ rev = "D"
    /\ IF multiReader.built
       THEN \E k \in BufSizes : ReadFrom(multiReader, k)
       ELSE /\ ret' = Returned("Read", "panic", 0, <<>>)
            /\ UNCHANGED <<multiReader, heap, count, out, hist>>
    /\ UNCHANGED <<rev, boundary, contentType, writer, readers, length, appended>>

\* Count().
Count ==
    /\ Alive
    /\ ret' = Returned("Count", "nil", count, <<>>)
    /\ UNCHANGED <<rev, boundary, contentType, writer, heap, readers, length,
                   multiReader, count, out, appended, hist>>

Next ==
    \/ AddReader
    \/ AddReaderC
    \/ AddFormReader
    \/ WriteFields
    \/ AddFields
    \/ WriteFieldsC
    \/ WriteFile
    \/ AddFile
    \/ CallerClose
    \/ SetBoundary
    \/ SetupRequest
    \/ SetupRequestC
    \/ SetupHTTPRequest
    \/ Read
    \/ ReadD
    \/ Count

Spec == Init /\ [][Next]_vars

(***************************************************************************)
(* Read and Count with observers.  sync/atomic makes the add and the load  *)
(* of count single steps; between n, err = mr.Read(p) and the add the      *)
(* bytes are in p and count does not have them yet.                        *)
(***************************************************************************)
\* First step of Read: n, err = mr.Read(p) on the MultiReader m.
ReadInto(m, k) ==
    LET res == MultiRead(m.rs, heap, k)
    IN  /\ multiReader' = [built |-> TRUE, rs |-> res.rs]
        /\ heap' = res.heap
        /\ out' = out \o res.bytes
        /\ hist' = [hist EXCEPT !.pend = [active |-> TRUE, n |-> res.n,
                                          err |-> res.err]]
        /\ UNCHANGED <<count, ret>>

\* Revisions A, B and C.
ReadBegin ==
    /\ Alive /\ rev \in {"A", "B", "C"}
    /\ \E k \in BufSizes : ReadInto(GetMultiReader, k)
    /\ UNCHANGED <<rev, boundary, contentType, writer, readers, length, appended>>

\* Revision D.
ReadBeginD ==
    /\ Alive /\ rev = "D"
    /\ IF multiReader.built
       THEN \E k \in BufSizes : ReadInto(multiReader, k)
       ELSE /\ ret' = Returned("Read", "panic", 0, <<>>)
            /\ UNCHANGED <<multiReader, heap, count, out, hist>>
    /\ UNCHANGED <<rev, boundary, contentType, writer, readers, length, appended>>

\* ReadEnd with n stored in count in place of added to it.
ReadEndStores ==
    /\ NotPanicked /\ hist.pend.active
    /\ count' = hist.pend.n
    /\ ret' = Returned("Read", hist.pend.err, hist.pend.n, <<>>)
    /\ hist' = [AfterRead(hist, hist.pend.err) EXCEPT !.pend = NoRead]
    /\ UNCHANGED <<rev, boundary, contentType, writer, heap, readers, length,
                   multiReader, out, appended>>

\* Second step of Read: atomic.AddInt64(&mr.count, int64(n)); return n, err.
ReadEnd ==
    /\ NotPanicked /\ hist.pend.active
    /\ count' = count + hist.pend.n
    /\ ret' = Returned("Read", hist.pend.err, hist.pend.n, <<>>)
    /\ hist' = [AfterRead(hist, hist.pend.err) EXCEPT !.pend = NoRead]
    /\ UNCHANGED <<rev, boundary, contentType, writer, heap, readers, length,
                   multiReader, out, appended>>

\* Count() called by an observer, at any moment of the run.
Observe ==
    /\ NotPanicked
    /\ hist' = [hist EXCEPT !.seen = count]
    /\ UNCHANGED <<rev, boundary, contentType, writer, heap, readers, length,
                   multiReader, count, ret, out, appended>>

NextObserved ==
    \/ AddReader
    \/ AddReaderC
    \/ AddFormReader
    \/ SetupHTTPRequest
    \/ ReadBegin
    \/ ReadBeginD
    \/ ReadEnd
    \/ Observe

SpecObserved == Init /\ [][NextObserved]_vars

(***************************************************************************)
(* Vocabulary of the properties.                                           *)
(***************************************************************************)
\* The literal held by the last element of the Source Sequence.
ClosingLiteral == heap[readers[Len(readers)]].data

\* The bytes the sources before the last element hold, in sequence order.
BodyContent ==
    Flatten([i \in 1..(Len(readers) - 1) |-> heap[readers[i]].data])

\* The bytes the Source Sequence has still to deliver, in sequence order.
StreamContent == Flatten([i \in 1..Len(readers) |-> Unread(heap[readers[i]])])

\* The bytes the MultiReader has still to deliver if no source fails.
CursorContent ==
    Flatten([i \in 1..Len(multiReader.rs) |-> Unread(heap[multiReader.rs[i]])])

IsSuffix(t, s) ==
    Len(t) <= Len(s) /\ SubSeq(s, Len(s) - Len(t) + 1, Len(s)) = t

Contains(s, t) ==
    \E i \in 0..(Len(s) - Len(t)) : SubSeq(s, i + 1, i + Len(t)) = t

AppendOps == {"AddReader", "AddFormReader", "WriteFields", "AddFields",
              "WriteFile", "AddFile"}

SetupOps == {"SetupRequest", "SetupHTTPRequest"}

\* The last Read reported io.EOF: the stream is drained.
Drained == ret.op = "Read" /\ ret.err = "EOF"

\* What the accessors and the close reader show of the boundary.
BoundaryState == <<boundary, contentType, ClosingLiteral>>

\* A token with a CR or LF in it, or outside the length limits of 1..70.
BadToken(token) ==
    \/ Len(token) < 1
    \/ Len(token) > 70
    \/ \E i \in 1..Len(token) : token[i] \in {"\r", "\n"}

(***************************************************************************)
(* C1.  The closing-boundary literal is the last element of the Source     *)
(* Sequence in every state, and every append call puts the content it adds *)
(* immediately before that element: right after the call, the bytes held   *)
(* by the sources in front of the closing literal end with the new content.*)
(***************************************************************************)
C1_AppendBeforeClosing ==
    [][ /\ ClosingLiteral' = FormClose(boundary')
        /\ appended' # appended =>
              IsSuffix(Flatten(SubSeq(appended', Len(appended) + 1, Len(appended'))),
                       BodyContent')
      ]_vars

(***************************************************************************)
(* C2.  When every source was appended before the cursor was built, the    *)
(* bytes delivered by the time Read reports io.EOF are the contents of the *)
(* appended sources in append order followed by the closing literal.       *)
(***************************************************************************)
C2_DrainIsConcatenation ==
    (Drained /\ ~hist.late) => out = Flatten(appended) \o FormClose(boundary)

(***************************************************************************)
(* C3.  An append call made after the first read fails with                *)
(* AlreadyConsumingError and leaves the Source Sequence and the total      *)
(* length as they were.                                                    *)
(***************************************************************************)
C3_AppendAfterReadFails ==
    [][ (hist.reads /\ ret'.op \in AppendOps) =>
            /\ ret'.err = "AlreadyConsumingError"
            /\ readers' = readers
            /\ length' = length
      ]_vars

(***************************************************************************)
(* C4.  The request gets a content length only if every appended source   *)
(* came with its real length, and then never one smaller than the number   *)
(* of bytes the stream holds.                                              *)
(***************************************************************************)
C4_NoWrongContentLength ==
    (ret.op \in SetupOps /\ ret.req.lengthSet) =>
        /\ hist.declared
        /\ ret.req.contentLength >= Len(out) + Len(CursorContent)

(***************************************************************************)
(* C5.  The progress counter is zero while no read has been made, and it   *)
(* equals the number of bytes delivered so far, so the number of bytes the *)
(* stream produced once it is drained.                                     *)
(***************************************************************************)
C5_CountIsBytesDelivered ==
    /\ ~hist.reads => count = 0
    /\ count = Len(out)

\* A drained stream that delivered the closing literal and more than one
\* small buffer of appended content before it.
C5_Witness ==
    /\ Drained
    /\ hist.appends >= 1
    /\ count > Len(FormClose(boundary)) + SmallBuf

(***************************************************************************)
(* C6.  SetBoundary with a token that has a CR or LF in it or breaks the   *)
(* length limits returns an error, and leaves Boundary(), ContentType(),   *)
(* the closing literal and the Writer's boundary as they were.             *)
(***************************************************************************)
C6_BadBoundaryRejected ==
    [][ (ret'.op = "SetBoundary" /\ BadToken(ret'.arg)) =>
            /\ ret'.err # "nil"
            /\ BoundaryState' = BoundaryState
            /\ writer'.boundary = writer.boundary
      ]_vars

\* A token with an embedded CRLF was refused for its syntax, after an
\* earlier SetBoundary had succeeded.
C6_Witness ==
    /\ ret.op = "SetBoundary"
    /\ ret.err = "mime: invalid boundary character"
    /\ \E i \in 1..Len(ret.arg) : ret.arg[i] = "\r"
    /\ writer.boundary # boundary

(***************************************************************************)
(* C7.  After a successful SetBoundary(token) made before any read,        *)
(* Boundary() is token, ContentType() is multipart/form-data with          *)
(* boundary=token, and the closing literal is \r\n--token--\r\n.           *)
(***************************************************************************)
C7_SetBoundaryRegenerates ==
    (ret.op = "SetBoundary" /\ ret.err = "nil" /\ ~hist.reads) =>
        /\ boundary = ret.arg
        /\ contentType = FormDataPrefix \o ret.arg
        /\ ClosingLiteral = FormClose(ret.arg)

(***************************************************************************)
(* C8.  Every SetBoundary call made after the first read fails, and leaves *)
(* the boundary, the content type and the closing literal unchanged.       *)
(***************************************************************************)
C8_NoBoundaryChangeAfterRead ==
    [][ (hist.reads /\ ret'.op = "SetBoundary") =>
            /\ ret'.err # "nil"
            /\ BoundaryState' = BoundaryState
            /\ writer'.boundary = writer.boundary
      ]_vars

(***************************************************************************)
(* C9.  The assembler never closes a file it has appended: no file of the  *)
(* Source Sequence is closed by the assembler.                             *)
(***************************************************************************)
C9_AssemblerLeavesFileOpen ==
    \A i \in 1..Len(readers) :
        heap[readers[i]].kind = "file" => heap[readers[i]].closer # "assembler"

(***************************************************************************)
(* C10.  Right after a writeFields call made before the cursor is built,   *)
(* the Source Sequence ends with the closing literal and holds, for every  *)
(* entry of the mapping, a header naming the field, a blank line, the      *)
(* value and \r\n.                                                         *)
(***************************************************************************)
C10_FieldsInStream ==
    (ret.op \in {"WriteFields", "AddFields"} /\ ~multiReader.built) =>
        /\ IsSuffix(FormClose(boundary), StreamContent)
        /\ \A i \in 1..Len(ret.arg) :
              Contains(StreamContent,
                       DispositionName \o ret.arg[i][1] \o Quote \o CRLF \o CRLF
                       \o ret.arg[i][2] \o CRLF)

(***************************************************************************)
(* C11.  The MultiReader is built once, by the first Read or the first     *)
(* SetupRequest, and reused from then on: once it is built it stays built  *)
(* and what it has still to visit only shrinks from the front (no rebuild, *)
(* no source it had finished comes back), and no Read runs without it.     *)
(***************************************************************************)
C11_CursorBuiltOnce ==
    [][ /\ multiReader.built =>
              /\ multiReader'.built
              /\ IsSuffix(multiReader'.rs, multiReader.rs)
        /\ ret'.op = "Read" => ret'.err # "panic"
      ]_vars

\* The readers the next Read goes through: the MultiReader's, or the
\* Source Sequence if the MultiReader is still to be built.
CursorBefore == IF multiReader.built THEN multiReader.rs ELSE readers

\* Does the reader answer a read with no bytes and an error that is not
\* io.EOF?
Fails(r) == LET res == ReaderRead(r, SmallBuf) IN res.n = 0 /\ res.err \notin {"nil", "EOF"}

\* Does it answer with no bytes and io.EOF?
AtEnd(r) == LET res == ReaderRead(r, SmallBuf) IN res.n = 0 /\ res.err = "EOF"

\* The place in rs of the source a read over rs comes to, if that source
\* fails: every source in front of it is at its end.  0 if the read does
\* not come to a failing source.
FailingSource(rs) ==
    IF \E i \in 1..Len(rs) : Fails(heap[rs[i]]) /\ \A j \in 1..(i - 1) : AtEnd(heap[rs[j]])
    THEN CHOOSE i \in 1..Len(rs) :
            Fails(heap[rs[i]]) /\ \A j \in 1..(i - 1) : AtEnd(heap[rs[j]])
    ELSE 0

(***************************************************************************)
(* C12.  A Read that comes to a source whose read fails returns that       *)
(* source's error and no bytes, and leaves the MultiReader standing at the *)
(* failing source; once a Read has failed no later step delivers a byte    *)
(* and no later Read returns nil or io.EOF, so nothing of the sources      *)
(* behind the failing one, the closing literal included, is delivered.     *)
(***************************************************************************)
C12_SourceErrorStopsStream ==
    [][ /\ (ret'.op = "Read" /\ ret'.err # "panic") =>
              LET rs == CursorBefore
                  at == FailingSource(rs)
              IN  at # 0 =>
                    /\ ret'.err = ReaderRead(heap[rs[at]], SmallBuf).err
                    /\ ret'.n = 0
                    /\ out' = out
                    /\ multiReader'.rs = SubSeq(rs, at, Len(rs))
        /\ hist.failed =>
              /\ out' = out
              /\ ret'.op = "Read" => ret'.err \notin {"nil", "EOF"}
      ]_vars

\* A caller's reader failed after its own bytes were delivered: the last
\* Read returned its error, and the closing literal is still undelivered
\* behind it.
C12_Witness ==
    /\ ret.op = "Read"
    /\ ret.err = "ErrSource"
    /\ hist.failed
    /\ Len(out) > 0
    /\ Len(multiReader.rs) >= 2
    /\ IsSuffix(FormClose(boundary), CursorContent)

(***************************************************************************)
(* C13.  Read returns io.EOF only when nothing is left: when the stream is *)
(* drained no source of the Source Sequence, the closing literal included, *)
(* has a byte that was not delivered.                                      *)
(***************************************************************************)
C13_EOFOnlyWhenAllDelivered ==
    Drained => StreamContent = <<>>

(***************************************************************************)
(* C15.  When every source was appended with its real length and before    *)
(* the MultiReader was built, the content length SetupRequest puts in the  *)
(* request is the number of bytes the stream delivers when it is drained:  *)
(* the bytes already delivered plus those the MultiReader still holds,     *)
(* form fields included.                                                   *)
(***************************************************************************)
C15_ContentLengthIsStreamLength ==
    (ret.op \in SetupOps /\ ret.req.lengthSet /\ hist.declared /\ ~hist.late) =>
        ret.req.contentLength = Len(out) + Len(CursorContent)

\* The delimiters that open a part: the one AddFormReader, WriteFile and
\* AddFile format from mr.boundary, and the one the Writer puts out.
PartDelimiters == {Dashes \o boundary \o CRLF, Dashes \o writer.boundary \o CRLF}

\* The places of s where t starts.
Occurrences(s, t) ==
    {i \in 1..(Len(s) - Len(t) + 1) : SubSeq(s, i, i + Len(t) - 1) = t}

(***************************************************************************)
(* C16.  In the drained output of a stream assembled from parts (fields,   *)
(* form parts and files, all appended before the MultiReader was built),   *)
(* every delimiter that opens a part stands at the very start of the       *)
(* output or right after a \r\n.                                           *)
(***************************************************************************)
C16_PartsDelimited ==
    (Drained /\ ~hist.late /\ ~hist.raw) =>
        \A d \in PartDelimiters : \A i \in Occurrences(out, d) :
            i = 1 \/ (i > 2 /\ SubSeq(out, i - 2, i - 1) = CRLF)

(***************************************************************************)
(* C17.  One boundary token is in use in every state: ContentType() names  *)
(* the token of Boundary(), the closing literal is built from it, and      *)
(* every part header the Source Sequence holds in front of the closing     *)
(* literal stands right behind a delimiter made of that same token.        *)
(***************************************************************************)
C17_OneBoundaryToken ==
    /\ contentType = FormDataContentType(boundary)
    /\ ClosingLiteral = FormClose(boundary)
    /\ \A i \in Occurrences(BodyContent, DispositionName) :
          LET d == Dashes \o boundary \o CRLF
          IN  i > Len(d) /\ SubSeq(BodyContent, i - Len(d), i - 1) = d

\* No source of the Source Sequence fails: no caller's reader that ends in
\* an error, no closed file.
SourcesSound ==
    \A i \in 1..Len(readers) : ~heap[readers[i]].bad /\ heap[readers[i]].open

(***************************************************************************)
(* C18.  Once a Read has returned io.EOF, and no source is one that fails, *)
(* every later Read delivers no bytes, returns io.EOF again and leaves the *)
(* counter as it was.                                                      *)
(***************************************************************************)
C18_DoneIsFinal ==
    [][ (hist.done /\ SourcesSound /\ ret'.op = "Read") =>
            /\ ret'.n = 0
            /\ ret'.err = "EOF"
            /\ count' = count
      ]_vars

\* The bytes of the reads that have returned: what was delivered, less the
\* bytes of the Read that has not added them to count yet.
CompletedSum == Len(out) - (IF hist.pend.active THEN hist.pend.n ELSE 0)

(***************************************************************************)
(* C14.  With one goroutine reading and observers calling Count at any     *)
(* moment, every value an observer gets is the number of bytes delivered   *)
(* by the reads completed so far, a sum over a prefix of the reads, and    *)
(* the values observed never decrease: count itself never decreases.       *)
(***************************************************************************)
C14_ObservedCounts ==
    [][ /\ count' >= count
        /\ hist'.seen >= hist.seen
        /\ hist'.seen # hist.seen => hist'.seen = CompletedSum'
        /\ count' = CompletedSum'
      ]_vars

\* An observer got a count larger than zero while a Read that had taken
\* bytes from the MultiReader had not yet added them.
C14_Witness ==
    /\ hist.pend.active
    /\ hist.pend.n > 0
    /\ hist.seen > 0
    /\ hist.seen = count
    /\ count < Len(out)

====
